---- MODULE Spec2Model ----
(***************************************************************************)
(* Gemini TTS narrator: the App component's generate / play / pause       *)
(* handlers (src/App.tsx), the speech service (src/services/              *)
(* geminiService.ts) and the Web Audio objects they drive.                 *)
(*                                                                         *)
(* One action is one synchronous run of handler code: from an event (a    *)
(* click, a promise settling, an 'ended' event) to the next await or to    *)
(* the handler's end.  React state set in such a run is visible to the    *)
(* next event.  `await decodeAudioData(...)` settles in a microtask, so    *)
(* no event is served between the provider response and source.start().    *)
(***************************************************************************)
EXTENDS Integers, Sequences, FiniteSets, TLC

\* ------------------------------------------------------------------ bounds
MaxGen == 3        \* validated handleGenerateSpeech invocations
MaxVoice == 3      \* AudioBufferSourceNodes ever created
MaxOps == 2        \* device suspend()/resume() calls pending at once
MaxBytes == 4      \* bytes in a decoded PCM payload
MaxTextLen == 2    \* characters in the text area
MaxFrames == 3     \* frames in a payload whose container is built byte by byte

\* ------------------------------------------------------- program constants
TTS_CHANNEL_COUNT == 1
TTS_SAMPLE_RATE == 24000
WAV_HEADER_BYTES == 44
INT16_NORM == 32768     \* decodeAudioData: dataInt16[...] / 32768.0
NEG_SCALE == 32768      \* audioBufferToWav: s * 0x8000
POS_SCALE == 32767      \* audioBufferToWav: s * 0x7FFF
PCM_FORMAT == 1         \* audioBufferToWav: format
BIT_DEPTH == 16         \* audioBufferToWav: bitDepth
FMT_CHUNK_SIZE == 16    \* audioBufferToWav: size of the "fmt " chunk
RIFF_EXTRA == 36        \* audioBufferToWav: 36 + dataLength

\* --------------------------------------------------------------- the state
VARIABLES
    isLoading,          \* useState<boolean>
    isPlaying,          \* useState<boolean>
    error,              \* useState<string|null>; <<>> is null
    generatedAudioUrl,  \* useState<string|null>; NoUrl is null
    audioBuffer,        \* useState<AudioBuffer|null>; NoBuffer is null
    audioContextRef,    \* useRef<AudioContext|null>; 0 is null, else the context's id
    audioSourceRef,     \* useRef<AudioBufferSourceNode|null>; 0 is null, else a voice id
    ctxState,           \* AudioContext.state of the context
    ctxQueue,           \* suspend()/resume() calls whose promise has not settled, oldest first
    voices,             \* every AudioBufferSourceNode created, by id
    gens,               \* every validated handleGenerateSpeech invocation, by request number
    codec               \* one run of decodeAudioData / audioBufferToWav on a payload

vars == <<isLoading, isPlaying, error, generatedAudioUrl, audioBuffer,
          audioContextRef, audioSourceRef, ctxState, ctxQueue, voices, gens,
          codec>>

\* no codec run is being followed
CodecIdle == [pc |-> "idle", bytes |-> <<>>, samples |-> <<>>, wav |-> <<>>]

NoError == <<>>
NoUrl == [req |-> 0, bytes |-> 0]
NoBuffer == [req |-> 0, frames |-> 0]

ValidationMsg == <<"Please enter some text to generate speech.">>

\* ------------------------------------------------------------------- text
Chars == {" ", "a"}

Texts == UNION {[1..n -> Chars] : n \in 0..MaxTextLen}

IsSpace(c) == c = " "

RECURSIVE TrimStart(_)
TrimStart(t) ==
    IF t = <<>> THEN <<>>
    ELSE IF IsSpace(Head(t)) THEN TrimStart(Tail(t)) ELSE t

RECURSIVE TrimEnd(_)
TrimEnd(t) ==
    IF t = <<>> THEN <<>>
    ELSE IF IsSpace(t[Len(t)]) THEN TrimEnd(SubSeq(t, 1, Len(t) - 1)) ELSE t

\* String.prototype.trim
Trim(t) == TrimEnd(TrimStart(t))

\* `!text` without the trim: only the empty string is rejected
IsBlankNoTrim(t) == t = <<>>

\* `!text.trim()`
IsBlank(t) == Trim(t) = <<>>

\* ------------------------------------------------------ the speech service
\* What ai.models.generateContent can do: reject with an Error, reject with
\* something else, answer without inline audio (with or without text), or
\* answer with a base64 payload.  A payload is described by whether it is
\* well-formed base64 and by the number of bytes it decodes to.
ApiOutcomes ==
    [kind : {"reject_error", "reject_other", "no_data_text", "no_data"},
     valid : {TRUE}, len : {0}]
    \cup [kind : {"data"}, valid : BOOLEAN, len : 1..MaxBytes]

Returned(v) == [throws |-> FALSE, message |-> NoError, value |-> v]

Thrown(m) == [throws |-> TRUE, message |-> m, value |-> [valid |-> FALSE, len |-> 0]]

\* generateSpeech: the inner throws are caught by its own catch and rewrapped
generateSpeech(api) ==
    CASE api.kind = "data" -> Returned([valid |-> api.valid, len |-> api.len])
      [] api.kind = "no_data_text" ->
            Thrown(<<"Failed to generate speech: ", "API Error: ", "text">>)
      [] api.kind = "no_data" ->
            Thrown(<<"Failed to generate speech: ", "No audio data received from the API.">>)
      [] api.kind = "reject_error" ->
            Thrown(<<"Failed to generate speech: ", "message">>)
      [] OTHER ->
            Thrown(<<"An unknown error occurred while generating speech.">>)

\* ------------------------------------------------------------- the codecs
\* decode: atob throws on malformed base64; otherwise one byte per char code
decode(payload) ==
    IF payload.valid
    THEN [throws |-> FALSE, message |-> NoError, len |-> payload.len]
    ELSE [throws |-> TRUE, message |-> <<"InvalidCharacterError">>, len |-> 0]

\* a decoder that drops a trailing odd byte instead of throwing
decodeAudioDataTruncating(len, numChannels) ==
    IF (len \div 2) \div numChannels = 0
    THEN [throws |-> TRUE, message |-> <<"NotSupportedError">>, frames |-> 0]
    ELSE [throws |-> FALSE, message |-> NoError,
          frames |-> (len \div 2) \div numChannels]

\* decodeAudioData: new Int16Array(buffer) throws a RangeError on an odd byte
\* length; createBuffer throws NotSupportedError on a zero frame count
decodeAudioData(len, numChannels) ==
    IF len % 2 # 0
    THEN [throws |-> TRUE, message |-> <<"RangeError">>, frames |-> 0]
    ELSE IF (len \div 2) \div numChannels = 0
    THEN [throws |-> TRUE, message |-> <<"NotSupportedError">>, frames |-> 0]
    ELSE [throws |-> FALSE, message |-> NoError,
          frames |-> (len \div 2) \div numChannels]

\* --- samples.  A Float32 sample is held as an exact fraction num/den: every
\* value the code computes here is a 16-bit integer over 32768, which Float32
\* and the double arithmetic of `s * 0x7FFF` represent without rounding.

\* a Uint16Array view: the sign bit is read as magnitude
Uint16FromBytes(lo, hi) == lo + 256 * hi

\* new Int16Array(data.buffer): two bytes, least significant first, signed
Int16FromBytes(lo, hi) ==
    IF lo + 256 * hi >= 32768 THEN lo + 256 * hi - 65536 ELSE lo + 256 * hi

\* decodeAudioData, lines 29-34: channel 0 of the buffer built from `bytes`
DecodeChannel(bytes, numChannels) ==
    LET dataInt16 == [i \in 1..(Len(bytes) \div 2) |->
                         Int16FromBytes(bytes[2 * i - 1], bytes[2 * i])]
        frameCount == Len(dataInt16) \div numChannels
    IN  [i \in 1..frameCount |->
            [num |-> dataInt16[(i - 1) * numChannels + 1], den |-> INT16_NORM]]

\* Math.max(-1, Math.min(1, x))
Clamp(x) ==
    IF x.num < -x.den THEN [num |-> -x.den, den |-> x.den]
    ELSE IF x.num > x.den THEN [num |-> x.den, den |-> x.den]
    ELSE x

\* the integer part of a / b (b > 0), rounding toward zero
TruncDiv(a, b) == IF a >= 0 THEN a \div b ELSE -((-a) \div b)

\* storing a number into an Int16Array: truncate, then wrap modulo 2^16
ToInt16(a, b) == ((TruncDiv(a, b) + 32768) % 65536) - 32768

\* audioBufferToWav, lines 47-50: one sample to its 16-bit code
EncodeSample(x) ==
    LET s == Clamp(x)
    IN  IF s.num < 0 THEN ToInt16(s.num * NEG_SCALE, s.den)
        ELSE ToInt16(s.num * POS_SCALE, s.den)

\* --- the container
\* DataView.setUint16 / setUint32 / setInt16 with littleEndian = true
U16LE(x) == <<x % 256, (x \div 256) % 256>>

U32LE(x) == <<x % 256, (x \div 256) % 256, (x \div 65536) % 256,
              (x \div 16777216) % 256>>

I16LE(x) == U16LE((x + 65536) % 65536)

\* writeString: the char codes of 'RIFF', 'WAVE', 'fmt ', 'data'
TagRIFF == <<82, 73, 70, 70>>
TagWAVE == <<87, 65, 86, 69>>
TagFmt == <<102, 109, 116, 32>>
TagData == <<100, 97, 116, 97>>

\* a data length counted in samples instead of bytes
DataLengthInSamples(n) == n

\* dataLength = pcmData.length * (bitDepth / 8)
DataLength(n) == n * (BIT_DEPTH \div 8)

\* bufferLength = 44 + dataLength
BufferLength(n) == WAV_HEADER_BYTES + DataLength(n)

\* audioBufferToWav, lines 63-78: the bytes written before the samples
WavHeader(numChannels, sampleRate, dataLength) ==
    TagRIFF \o U32LE(RIFF_EXTRA + dataLength) \o TagWAVE
    \o TagFmt \o U32LE(FMT_CHUNK_SIZE) \o U16LE(PCM_FORMAT) \o U16LE(numChannels)
    \o U32LE(sampleRate)
    \o U32LE(sampleRate * numChannels * (BIT_DEPTH \div 8))
    \o U16LE(numChannels * (BIT_DEPTH \div 8)) \o U16LE(BIT_DEPTH)
    \o TagData \o U32LE(dataLength)

\* audioBufferToWav, lines 80-82: the samples, two bytes each
WavData(pcmData) ==
    [k \in 1..(2 * Len(pcmData)) |-> I16LE(pcmData[(k + 1) \div 2])[((k - 1) % 2) + 1]]

\* audioBufferToWav on channel 0 = samples: a zeroed buffer of bufferLength
\* bytes, overwritten from offset 0 by the header and the samples
WavBytes(samples, numChannels, sampleRate) ==
    LET pcmData == [i \in 1..Len(samples) |-> EncodeSample(samples[i])]
        written == WavHeader(numChannels, sampleRate, DataLength(Len(pcmData)))
                   \o WavData(pcmData)
    IN  [k \in 1..BufferLength(Len(pcmData)) |->
            IF k <= Len(written) THEN written[k] ELSE 0]

\* audioBufferToWav: byte length of the container for a buffer of `frames`
audioBufferToWav(frames) == BufferLength(frames)

\* ------------------------------------------------------------- the voices
\* createBufferSource + buffer + connect + onended + start
NewVoice(b) ==
    [buffer |-> b, status |-> "playing", connected |-> TRUE, onended |-> TRUE]

\* AudioBufferSourceNode.stop(): a playing node ends and queues its 'ended' event
Stopped(v) == [v EXCEPT !.status = IF @ = "playing" THEN "finished" ELSE @]

\* a stop step that leaves the previous node playing and connected
StopCurrentSkipped(vs, ref) == vs

\* handleGenerateSpeech, "Stop any currently playing audio"
StopCurrent(vs, ref) ==
    IF ref = 0 THEN vs
    ELSE [vs EXCEPT ![ref] =
            [Stopped(@) EXCEPT !.onended = FALSE, !.connected = FALSE]]

\* handleTogglePlayPause, restart branch: stop and disconnect, onended kept
StopForRestart(vs, ref) ==
    IF ref = 0 THEN vs
    ELSE [vs EXCEPT ![ref] = [Stopped(@) EXCEPT !.connected = FALSE]]

\* an onended handler that forgets to reset the transport
OnEndedNoReset(v, ref, playing) == [isPlaying |-> playing, ref |-> ref]

\* source.onended / newSource.onended
OnEnded(v, ref, playing) ==
    IF ref = v
    THEN [isPlaying |-> FALSE, ref |-> 0]
    ELSE [isPlaying |-> playing, ref |-> ref]

\* voices on the output device: connected, and 'ended' not yet delivered
OnDevice == {v \in 1..Len(voices) :
                voices[v].connected /\ voices[v].status # "ended"}

\* ------------------------------------------------------------ the handlers
Init ==
    /\ isLoading = FALSE
    /\ isPlaying = FALSE
    /\ error = NoError
    /\ generatedAudioUrl = NoUrl
    /\ audioBuffer = NoBuffer
    /\ audioContextRef = 0
    /\ audioSourceRef = 0
    /\ ctxState = "none"
    /\ ctxQueue = <<>>
    /\ voices = <<>>
    /\ gens = <<>>
    /\ codec = CodecIdle

\* a Generate button that stays clickable while a generation is running
GenerateAlwaysEnabled == TRUE

\* <button onClick={handleGenerateSpeech} disabled={isLoading}>
GenerateEnabled == ~isLoading

\* a validation failure handled like the catch block: everything is reset
RejectBlankResetting ==
    /\ error' = ValidationMsg
    /\ isPlaying' = FALSE
    /\ generatedAudioUrl' = NoUrl
    /\ audioBuffer' = NoBuffer
    /\ voices' = StopCurrent(voices, audioSourceRef)
    /\ audioSourceRef' = 0
    /\ UNCHANGED <<isLoading, audioContextRef, ctxState, ctxQueue, gens, codec>>

\* handleGenerateSpeech with blank text: report and return
RejectBlank ==
    /\ error' = ValidationMsg
    /\ UNCHANGED <<isLoading, isPlaying, generatedAudioUrl, audioBuffer,
                   audioContextRef, audioSourceRef, ctxState, ctxQueue,
                   voices, gens, codec>>

\* handleGenerateSpeech from the click to its first await
StartGeneration ==
    /\ Len(gens) < MaxGen
    /\ isLoading' = TRUE
    /\ error' = NoError
    /\ generatedAudioUrl' = NoUrl
    /\ audioBuffer' = NoBuffer
    /\ voices' = StopCurrent(voices, audioSourceRef)
    /\ audioSourceRef' = 0
    /\ IF audioContextRef # 0 /\ ctxState = "suspended"
       THEN /\ Len(ctxQueue) < MaxOps
            /\ ctxQueue' = Append(ctxQueue, [op |-> "resume", gen |-> Len(gens) + 1])
            /\ gens' = Append(gens, [pc |-> "resume"])
            /\ UNCHANGED isPlaying
       ELSE /\ isPlaying' = FALSE
            /\ gens' = Append(gens, [pc |-> "request"])
            /\ UNCHANGED ctxQueue
    /\ UNCHANGED <<audioContextRef, ctxState, codec>>

HandleGenerateSpeech(t) ==
    /\ GenerateEnabled
    /\ IF IsBlank(t) THEN RejectBlank ELSE StartGeneration

\* the try block up to the new buffer: which statement throws, if any, and
\* whether the context was created (line 128) before it did
Pipeline(api) ==
    LET r == generateSpeech(api)
        d == decode(r.value)
        a == decodeAudioData(d.len, TTS_CHANNEL_COUNT)
    IN  IF r.throws
        THEN [throws |-> TRUE, message |-> r.message, ctx |-> FALSE, frames |-> 0]
        ELSE IF d.throws
        THEN [throws |-> TRUE, message |-> d.message, ctx |-> TRUE, frames |-> 0]
        ELSE [throws |-> a.throws, message |-> a.message, ctx |-> TRUE,
              frames |-> a.frames]

\* a catch block that swallows the error
CaughtSilently(msg) ==
    [error |-> NoError, isPlaying |-> FALSE, url |-> NoUrl, buffer |-> NoBuffer]

\* handleGenerateSpeech, catch (err)
Caught(msg) ==
    [error |-> msg, isPlaying |-> FALSE, url |-> NoUrl, buffer |-> NoBuffer]

\* a context that is created anew by every generation
EnsureContextFresh(ref) == ref + 1

\* audioContextRef.current after `if (!audioContextRef.current) ... = new AudioContext`
\* (the context is created in answer to a click, so it is allowed to start:
\* ProviderResponse takes its state to be "running")
EnsureContext(ref) == IF ref = 0 THEN 1 ELSE ref

\* handleGenerateSpeech from the provider's answer to the end of the handler
ProviderResponse(g, api) ==
    /\ gens[g].pc = "request"
    /\ LET p == Pipeline(api) IN
        /\ IF p.ctx
           THEN /\ audioContextRef' = EnsureContext(audioContextRef)
                /\ ctxState' = IF audioContextRef = 0 THEN "running" ELSE ctxState
           ELSE UNCHANGED <<audioContextRef, ctxState>>
        /\ IF p.throws
           THEN /\ error' = Caught(p.message).error
                /\ isPlaying' = Caught(p.message).isPlaying
                /\ generatedAudioUrl' = Caught(p.message).url
                /\ audioBuffer' = Caught(p.message).buffer
                /\ gens' = [gens EXCEPT ![g].pc = "failed"]
                /\ UNCHANGED <<audioSourceRef, voices>>
           ELSE /\ Len(voices) < MaxVoice
                /\ audioBuffer' = [req |-> g, frames |-> p.frames]
                /\ generatedAudioUrl' =
                       [req |-> g, bytes |-> audioBufferToWav(p.frames)]
                /\ voices' = Append(voices, NewVoice(g))
                /\ audioSourceRef' = Len(voices) + 1
                /\ isPlaying' = TRUE
                /\ gens' = [gens EXCEPT ![g].pc = "done"]
                /\ UNCHANGED error
    /\ isLoading' = FALSE
    /\ UNCHANGED <<ctxQueue, codec>>

\* handleTogglePlayPause, `if (isPlaying)`: await suspend()
TogglePause ==
    /\ Len(ctxQueue) < MaxOps
    /\ ctxQueue' = Append(ctxQueue, [op |-> "suspend", gen |-> 0])
    /\ UNCHANGED <<isLoading, isPlaying, error, generatedAudioUrl,
                   audioBuffer, audioContextRef, audioSourceRef,
                   ctxState, voices, gens, codec>>

\* handleTogglePlayPause, `state === 'suspended'`: await resume()
ToggleResume ==
    /\ Len(ctxQueue) < MaxOps
    /\ ctxQueue' = Append(ctxQueue, [op |-> "resume", gen |-> 0])
    /\ UNCHANGED <<isLoading, isPlaying, error, generatedAudioUrl,
                   audioBuffer, audioContextRef, audioSourceRef,
                   ctxState, voices, gens, codec>>

\* handleTogglePlayPause, "If playback finished, start from beginning"
ToggleRestart ==
    /\ Len(voices) < MaxVoice
    /\ voices' = Append(StopForRestart(voices, audioSourceRef),
                        NewVoice(audioBuffer.req))
    /\ audioSourceRef' = Len(voices) + 1
    /\ isPlaying' = TRUE
    /\ UNCHANGED <<isLoading, error, generatedAudioUrl, audioBuffer,
                   audioContextRef, ctxState, ctxQueue, gens, codec>>

\* a toggle that restarts whenever it is not playing, suspended device or not
HandleTogglePlayPauseAlwaysRestarts ==
    IF audioContextRef = 0 \/ audioBuffer = NoBuffer
    THEN UNCHANGED vars
    ELSE IF isPlaying THEN TogglePause ELSE ToggleRestart

\* a toggle without the `!audioBuffer` early return (a null context throws)
HandleTogglePlayPauseUnguarded ==
    IF audioContextRef = 0
    THEN UNCHANGED vars
    ELSE IF isPlaying THEN TogglePause
    ELSE IF ctxState = "suspended" THEN ToggleResume
    ELSE ToggleRestart

\* handleTogglePlayPause from the click to its await or end
HandleTogglePlayPause ==
    IF audioContextRef = 0 \/ audioBuffer = NoBuffer
    THEN UNCHANGED vars
    ELSE IF isPlaying THEN TogglePause
    ELSE IF ctxState = "suspended" THEN ToggleResume
    ELSE ToggleRestart

\* ------------------------------------------------------------- the device
\* The context serves suspend()/resume() in call order; the task that settles
\* the promise also sets AudioContext.state, and the awaiting handler runs on.

\* suspend() settles: `await suspend(); setIsPlaying(false)`
SuspendResolved ==
    /\ ctxQueue # <<>>
    /\ Head(ctxQueue).op = "suspend"
    /\ ctxQueue' = Tail(ctxQueue)
    /\ ctxState' = "suspended"
    /\ isPlaying' = FALSE
    /\ UNCHANGED <<isLoading, error, generatedAudioUrl, audioBuffer,
                   audioContextRef, audioSourceRef, voices, gens, codec>>

\* resume() settles: the toggle sets isPlaying true; the generation sets it
\* false and calls generateSpeech
ResumeResolved ==
    /\ ctxQueue # <<>>
    /\ Head(ctxQueue).op = "resume"
    /\ ctxQueue' = Tail(ctxQueue)
    /\ ctxState' = "running"
    /\ IF Head(ctxQueue).gen = 0
       THEN /\ isPlaying' = TRUE
            /\ UNCHANGED gens
       ELSE /\ isPlaying' = FALSE
            /\ gens' = [gens EXCEPT ![Head(ctxQueue).gen].pc = "request"]
    /\ UNCHANGED <<isLoading, error, generatedAudioUrl, audioBuffer,
                   audioContextRef, audioSourceRef, voices, codec>>

\* resume() rejects (the device cannot be acquired): the rejection leaves the
\* toggle unhandled, and leaves handleGenerateSpeech before its try block
ResumeRejected ==
    /\ ctxQueue # <<>>
    /\ Head(ctxQueue).op = "resume"
    /\ ctxQueue' = Tail(ctxQueue)
    /\ IF Head(ctxQueue).gen = 0
       THEN UNCHANGED gens
       ELSE gens' = [gens EXCEPT ![Head(ctxQueue).gen].pc = "aborted"]
    /\ UNCHANGED <<isLoading, isPlaying, error, generatedAudioUrl, audioBuffer,
                   audioContextRef, audioSourceRef, ctxState, voices, codec>>

\* a playing voice reaches the end of its buffer while the device renders
VoiceFinish(v) ==
    /\ voices[v].status = "playing"
    /\ ctxState = "running"
    /\ voices' = [voices EXCEPT ![v].status = "finished"]
    /\ UNCHANGED <<isLoading, isPlaying, error, generatedAudioUrl, audioBuffer,
                   audioContextRef, audioSourceRef, ctxState, ctxQueue, gens,
                   codec>>

\* a listener that outlives `onended = null` and does not check its source
EndedEffectOfAnyVoice(v, ref, playing) == [isPlaying |-> FALSE, ref |-> 0]

\* what dispatching 'ended' to voice v does to the transport: nothing when the
\* handler was cleared (line 113), else the handler's guarded reset
EndedEffect(v, ref, playing) ==
    IF voices[v].onended
    THEN OnEnded(v, ref, playing)
    ELSE [isPlaying |-> playing, ref |-> ref]

\* the 'ended' event of a finished or stopped voice is dispatched
EndedDeliver(v) ==
    /\ voices[v].status = "finished"
    /\ voices' = [voices EXCEPT ![v].status = "ended"]
    /\ isPlaying' = EndedEffect(v, audioSourceRef, isPlaying).isPlaying
    /\ audioSourceRef' = EndedEffect(v, audioSourceRef, isPlaying).ref
    /\ UNCHANGED <<isLoading, error, generatedAudioUrl, audioBuffer,
                   audioContextRef, ctxState, ctxQueue, gens, codec>>

Next ==
    \/ \E t \in Texts : HandleGenerateSpeech(t)
    \/ \E g \in 1..Len(gens) : \E api \in ApiOutcomes : ProviderResponse(g, api)
    \/ HandleTogglePlayPause
    \/ SuspendResolved
    \/ ResumeResolved
    \/ ResumeRejected
    \/ \E v \in 1..Len(voices) : VoiceFinish(v)
    \/ \E v \in 1..Len(voices) : EndedDeliver(v)

Spec == Init /\ [][Next]_vars

\* The device delivers what it owes: a voice playing on a running device
\* reaches the end of its buffer, and a queued 'ended' event is dispatched.
\* Nothing is assumed of the user, the provider or suspend()/resume().
Fairness ==
    \A v \in 1..MaxVoice :
        /\ WF_vars(v <= Len(voices) /\ VoiceFinish(v))
        /\ WF_vars(v <= Len(voices) /\ EndedDeliver(v))

LiveSpec == Init /\ [][Next]_vars /\ Fairness

\* ------------------------------------------------------ the codecs, alone
\* decodeAudioData followed by audioBufferToWav, as handleGenerateSpeech
\* runs them (lines 134-137), on one payload: every two-byte payload, and
\* longer and odd-length ones over a few byte values.
Byte == 0..255

EdgeBytes == {0, 128, 255}

CodecInputs ==
    [1..2 -> Byte] \cup UNION {[1..n -> EdgeBytes] : n \in 1..(2 * MaxFrames)}

transportVars == <<isLoading, isPlaying, error, generatedAudioUrl, audioBuffer,
                   audioContextRef, audioSourceRef, ctxState, ctxQueue, voices,
                   gens>>

CodecInit ==
    /\ isLoading = FALSE
    /\ isPlaying = FALSE
    /\ error = NoError
    /\ generatedAudioUrl = NoUrl
    /\ audioBuffer = NoBuffer
    /\ audioContextRef = 0
    /\ audioSourceRef = 0
    /\ ctxState = "none"
    /\ ctxQueue = <<>>
    /\ voices = <<>>
    /\ gens = <<>>
    /\ \E b \in CodecInputs :
          codec = [pc |-> "bytes", bytes |-> b, samples |-> <<>>, wav |-> <<>>]

\* line 134: decodeAudioData throws, or returns the buffer
CodecDecode ==
    /\ codec.pc = "bytes"
    /\ codec' =
          IF decodeAudioData(Len(codec.bytes), TTS_CHANNEL_COUNT).throws
          THEN [codec EXCEPT !.pc = "thrown"]
          ELSE [codec EXCEPT !.pc = "decoded",
                             !.samples = DecodeChannel(codec.bytes, TTS_CHANNEL_COUNT)]
    /\ UNCHANGED transportVars

\* line 137: audioBufferToWav
CodecEncode ==
    /\ codec.pc = "decoded"
    /\ codec' = [codec EXCEPT !.pc = "encoded",
                              !.wav = WavBytes(codec.samples, TTS_CHANNEL_COUNT,
                                               TTS_SAMPLE_RATE)]
    /\ UNCHANGED transportVars

CodecNext == CodecDecode \/ CodecEncode

CodecSpec == CodecInit /\ [][CodecNext]_vars

TypeOK ==
    /\ isLoading \in BOOLEAN
    /\ isPlaying \in BOOLEAN
    /\ audioContextRef \in 0..1
    /\ audioSourceRef \in 0..Len(voices)
    /\ ctxState \in {"none", "running", "suspended"}
    /\ Len(ctxQueue) <= MaxOps
    /\ Len(voices) <= MaxVoice
    /\ Len(gens) <= MaxGen

\* ------------------------------------------------------- step predicates
\* invocations of handleGenerateSpeech that are suspended at an await
InFlight == {g \in 1..Len(gens) : gens[g].pc \in {"resume", "request"}}

\* a text made of white space only (the empty text included)
WhitespaceOnly(t) == \A i \in 1..Len(t) : t[i] = " "

\* this step is handleGenerateSpeech rejecting its text
BlankRejected == error' = ValidationMsg /\ error # ValidationMsg

\* this step is handleGenerateSpeech leaving its try block through catch
GenerationFails == \E g \in 1..Len(gens) :
                      gens[g].pc = "request" /\ gens'[g].pc = "failed"

\* this step is handleGenerateSpeech starting its voice (lines 141-153)
GenerationStartsVoice == \E g \in 1..Len(gens) :
                            gens[g].pc = "request" /\ gens'[g].pc = "done"

\* this step is handleTogglePlayPause running on after `await resume()`
ToggleResumed ==
    /\ ctxQueue # <<>>
    /\ Head(ctxQueue) = [op |-> "resume", gen |-> 0]
    /\ ctxQueue' = Tail(ctxQueue)
    /\ ctxState' = "running"

\* ------------------------------------------------------------------ claims

\* C1: in every reachable state at most one voice is connected to the output
\* device; a new voice is never started while an earlier one is still on it.
C1_AtMostOneVoice == Cardinality(OnDevice) <= 1

\* a second or later voice is playing on the device
C1_Witness ==
    \E v \in OnDevice : v >= 2 /\ voices[v].status = "playing" /\ audioSourceRef = v

\* C2: the 'ended' event of a voice that is not the recorded current voice
\* changes neither the playing flag nor the current-voice reference.
C2_StaleCallbackSafe ==
    [][\A v \in 1..Len(voices) :
          (voices[v].status = "finished" /\ voices'[v].status = "ended"
              /\ audioSourceRef # v)
          => (isPlaying' = isPlaying /\ audioSourceRef' = audioSourceRef)]_vars

\* voice A was superseded and its 'ended' event has been delivered, while the
\* later voice B is the current voice and the transport reports Playing
C2_Witness ==
    \E a, b \in 1..Len(voices) :
        /\ a < b
        /\ voices[a].status = "ended" /\ ~voices[a].connected
        /\ audioSourceRef = b /\ voices[b].status = "playing"
        /\ isPlaying

\* C3: when the current voice's 'ended' event was delivered while the
\* transport was paused (no current voice, device suspended), the toggle that
\* follows ends in Playing with a live current voice.
C3_PausedEndedToggleRestarts ==
    [][(ToggleResumed /\ audioSourceRef = 0 /\ ~isLoading)
          => (audioSourceRef' # 0 /\ audioSourceRef' \in OnDevice')]_vars

\* C4: a generation that fails after validation leaves an error message, the
\* playing flag false, no buffer, no artifact and no voice on the device.
C4_FailureResets ==
    [][GenerationFails
          => /\ error' # NoError
             /\ ~isPlaying'
             /\ audioBuffer' = NoBuffer
             /\ generatedAudioUrl' = NoUrl
             /\ audioSourceRef' = 0
             /\ OnDevice' = {}]_vars

\* the latest generation failed after an earlier one had produced a voice
C4_Witness ==
    /\ gens # <<>>
    /\ gens[Len(gens)].pc = "failed"
    /\ error # NoError /\ error # ValidationMsg
    /\ voices # <<>>
    /\ ~isLoading

C6_BlankNeverCallsProvider ==
    [][\A t \in Texts :
          (WhitespaceOnly(t) /\ HandleGenerateSpeech(t))
          => (error' = ValidationMsg /\ gens' = gens /\ ~isLoading')]_vars

\* the validation error is displayed and no invocation is awaiting anything
C6_Witness ==
    /\ error = ValidationMsg
    /\ InFlight = {}
    /\ ~isLoading
    /\ gens # <<>>

\* C7: once no handleGenerateSpeech invocation is awaiting anything, the
\* loading flag is false again (it is never left true for good).
C7_LoadingReleased == InFlight = {} => ~isLoading

\* C8: when handleGenerateSpeech starts its voice and sets Playing, the
\* output device is running.
C8_StartsOnRunningDevice ==
    [][GenerationStartsVoice => ctxState' = "running"]_vars

\* C9: at most one transport operation is awaiting the device at any time.
C9_TransportSerialized == Len(ctxQueue) <= 1

C11_StopYieldsIdle ==
    \A g \in 1..Len(gens) :
        gens[g].pc = "request" => (~isPlaying /\ audioSourceRef = 0)

\* the messages of the errors generateSpeech throws (the request failed)
ProviderMessages ==
    {generateSpeech(api).message : api \in {a \in ApiOutcomes : a.kind # "data"}}

\* this step is handleGenerateSpeech running on after the provider's answer
GenerationAnswered == \E g \in 1..Len(gens) :
                         gens[g].pc = "request" /\ gens'[g].pc \in {"done", "failed"}

\* C12: the output device handle is created by the first generation whose
\* speech request succeeds, by nothing else, and once created it never changes.
C12_ContextCreatedOnceLazily ==
    [][/\ audioContextRef # 0 => audioContextRef' = audioContextRef
       /\ audioContextRef' # audioContextRef => GenerationAnswered
       /\ (audioContextRef = 0 /\ GenerationAnswered)
             => (audioContextRef' # 0
                    <=> (GenerationStartsVoice \/ error' \notin ProviderMessages))]_vars

\* two generations have run to their end on the one handle
C12_Witness ==
    /\ Len(gens) >= 2
    /\ gens[1].pc = "done" /\ gens[2].pc = "done"
    /\ audioContextRef = 1

\* C13: a payload whose byte length is not a multiple of channelCount * 2
\* makes the generation fail: error set, no buffer, no artifact, no new voice.
C13_OddLengthRejected ==
    [][\A api \in ApiOutcomes :
          (/\ api.kind = "data" /\ api.valid
           /\ api.len % (TTS_CHANNEL_COUNT * 2) # 0
           /\ \E g \in 1..Len(gens) : ProviderResponse(g, api))
          => /\ GenerationFails
             /\ error' # NoError
             /\ audioBuffer' = NoBuffer
             /\ generatedAudioUrl' = NoUrl
             /\ voices' = voices
             /\ audioSourceRef' = 0
             /\ ~isPlaying']_vars

\* a generation has failed on the RangeError of an odd-length payload
C13_Witness ==
    /\ gens # <<>>
    /\ gens[Len(gens)].pc = "failed"
    /\ error = <<"RangeError">>
    /\ audioBuffer = NoBuffer
    /\ audioSourceRef = 0

\* ------------------------------------------------- claims on the codecs
\* the 16-bit code of frame i of the payload, as the format defines it
InCode(i) ==
    LET u == codec.bytes[2 * i - 1] + 256 * codec.bytes[2 * i]
    IN  IF u >= 32768 THEN u - 65536 ELSE u

\* the 16-bit code of frame i in the container's data section
OutCode(i) ==
    LET u == codec.wav[44 + 2 * i - 1] + 256 * codec.wav[44 + 2 * i]
    IN  IF u >= 32768 THEN u - 65536 ELSE u

\* the unsigned 32-bit little-endian field at byte offset `off` (from 0)
FieldU32(off) ==
    codec.wav[off + 1] + 256 * codec.wav[off + 2] + 65536 * codec.wav[off + 3]
    + 16777216 * codec.wav[off + 4]

Frames == Len(codec.bytes) \div 2

\* C14: the container of an N-frame buffer has 44 + 2N bytes, its data-size
\* field (offset 40) is 2N and its RIFF size field (offset 4) is the length
\* minus 8; the buffer decoded from N 16-bit samples has N frames.
C14_ContainerLayout ==
    codec.pc = "encoded"
    => /\ Len(codec.samples) = Frames
       /\ Len(codec.wav) = 44 + 2 * Frames
       /\ FieldU32(40) = 2 * Frames
       /\ FieldU32(4) = Len(codec.wav) - 8

\* a container has been built for a buffer of two or more frames
C14_Witness == codec.pc = "encoded" /\ Frames >= 2

\* C15: every 16-bit code comes back from decode and encode within 1.
C15_RoundTripWithinOne ==
    codec.pc = "encoded"
    => \A i \in 1..Frames :
          /\ OutCode(i) - InCode(i) <= 1
          /\ InCode(i) - OutCode(i) <= 1

\* a positive code has come back one lower, a negative one unchanged
C15_Witness ==
    /\ codec.pc = "encoded"
    /\ \/ InCode(1) > 0 /\ OutCode(1) = InCode(1) - 1
       \/ InCode(1) < 0 /\ OutCode(1) = InCode(1)

\* C16: the boundary codes -32768 and 32767 come back exactly.
C16_BoundaryExact ==
    codec.pc = "encoded"
    => \A i \in 1..Frames :
          InCode(i) \in {-32768, 32767} => OutCode(i) = InCode(i)

\* ------------------------------------------- claims on the transport, II
\* voice v is the current voice, reported Playing on a running device, with
\* no transport operation and no generation in flight
PlayingOn(v) ==
    /\ audioSourceRef = v
    /\ isPlaying
    /\ ctxState = "running"
    /\ ctxQueue = <<>>
    /\ InFlight = {}

\* this step is a click that starts a transport operation or a generation
UserStep == ctxQueue' # ctxQueue \/ Len(gens') > Len(gens)

\* C17: the 'ended' event of the current voice leaves Playing and clears the
\* voice reference; a voice playing on a running device does not stay so for
\* ever, and it leaves that state only by a user operation or into Idle.
C17_NaturalCompletion ==
    /\ [][\A v \in 1..Len(voices) :
            /\ (voices[v].status = "finished" /\ voices'[v].status = "ended"
                   /\ audioSourceRef = v)
                  => (~isPlaying' /\ audioSourceRef' = 0)
            /\ (PlayingOn(v) /\ ~PlayingOn(v)')
                  => (UserStep \/ (~isPlaying' /\ audioSourceRef' = 0))]_vars
    /\ \A v \in 1..MaxVoice : PlayingOn(v) ~> ~PlayingOn(v)

\* a voice has played to its end as the current voice: Idle, buffer kept
C17_Witness ==
    /\ voices # <<>>
    /\ voices[Len(voices)].status = "ended" /\ voices[Len(voices)].onended
    /\ ~isPlaying /\ audioSourceRef = 0
    /\ audioBuffer # NoBuffer
    /\ ctxState = "running"

\* this step is handleTogglePlayPause running on after `await suspend()`
ToggleSuspended ==
    /\ ctxQueue # <<>>
    /\ Head(ctxQueue) = [op |-> "suspend", gen |-> 0]
    /\ ctxQueue' = Tail(ctxQueue)

\* this step is handleTogglePlayPause leaving `await resume()`, by either exit
ToggleResumeSettled ==
    /\ ctxQueue # <<>>
    /\ Head(ctxQueue) = [op |-> "resume", gen |-> 0]
    /\ ctxQueue' = Tail(ctxQueue)

\* the click of a pause or of a resume only queues the device operation
ToggleClickKeepsVoice ==
    (/\ HandleTogglePlayPause
     /\ audioContextRef # 0 /\ audioBuffer # NoBuffer
     /\ (isPlaying \/ ctxState = "suspended"))
       => /\ voices' = voices /\ audioSourceRef' = audioSourceRef
          /\ ctxQueue' = Append(ctxQueue,
                 [op |-> IF isPlaying THEN "suspend" ELSE "resume", gen |-> 0])

\* the pause ends Paused on a suspended device, the voice untouched
TogglePauseKeepsVoice ==
    ToggleSuspended
       => /\ ctxState' = "suspended" /\ ~isPlaying'
          /\ voices' = voices /\ audioSourceRef' = audioSourceRef

C19_ToggleNoOp ==
    [][(HandleTogglePlayPause /\ (audioContextRef = 0 \/ audioBuffer = NoBuffer))
          => UNCHANGED <<isPlaying, ctxState, ctxQueue, audioSourceRef, voices,
                         audioBuffer, generatedAudioUrl, error>>]_vars

\* a generation is in progress on an existing device: no buffer is loaded
C19_Witness ==
    /\ audioContextRef # 0
    /\ audioBuffer = NoBuffer
    /\ isLoading
    /\ InFlight # {}

\* C20: whenever Playing is reported, a current voice is recorded and it is
\* connected to the device.
C20_PlayingHasVoice ==
    isPlaying => (audioSourceRef # 0 /\ audioSourceRef \in OnDevice)

====
